---- MODULE Spec2Model ----
(***************************************************************************)
(* homework_bot (src/homework.py): the polling loop of main and the        *)
(* functions it calls, as a state machine.                                 *)
(*                                                                         *)
(* Python values are modelled as follows.                                  *)
(*  - A decoded JSON value whose Python type the code tests is a record    *)
(*    [type |-> "dict" | "list" | "int" | "null", val |-> ...]; a dict's   *)
(*    val is a TLA+ function whose DOMAIN is the dict's key set, so that   *)
(*    `key in d` is  key \in DOMAIN d.val.                                 *)
(*  - An exception is a record [type |-> class name, msg |-> argument];    *)
(*    Str gives Python's str() of it.                                      *)
(*  - A call's outcome is [ok |-> TRUE, value |-> v] for `return v` and    *)
(*    [ok |-> FALSE, error |-> e] for `raise e`.                           *)
(*  - The Russian string literals of the source are transliterated to     *)
(*    ASCII; strings are concatenated with \o as the f-strings do.         *)
(***************************************************************************)
EXTENDS Integers, Sequences, FiniteSets, TLC

VARIABLES
    env,              \* os.environ as read at lines 36-38
    pc,               \* position in main
    timestamp,        \* main's local: the poll cursor
    previous_report,  \* main's local: the last reported message
    api,              \* what requests.get did in the current cycle
    response,         \* main's local: the value get_api_answer returned
    verdict,          \* main's local: the string parse_status returned
    error,            \* the exception bound by `except Exception as error`
    pending,          \* an exception is propagating through `finally`
    attempts,         \* history: bot.send_message calls of the current cycle
    ts0,              \* history: timestamp when the current cycle began
    report0,          \* history: previous_report when the current cycle began
    prev,             \* history: summary of the last completed cycle
    polled,           \* history: requests.get was called at least once
    slept,            \* history: seconds slept since requests.get was last called
    lastVerdict       \* history: the last verdict delivered, "" when none or
                      \*   when a poll has since returned another first homework

vars == <<env, pc, timestamp, previous_report, api, response, verdict, error,
          pending, attempts, ts0, report0, prev, polled, slept, lastVerdict>>

(***************************************************************************)
(* Bounds of the model.                                                    *)
(***************************************************************************)
\* Clock readings and server timestamps range over 0..MaxTime.
MaxTime == 2

Times == 0..MaxTime

(***************************************************************************)
(* Module-level constants of homework.py.                                  *)
(***************************************************************************)
RETRY_PERIOD == 600

HTTP_OK == 200

ENDPOINT == "https://practicum.yandex.ru/api/user_api/homework_statuses/"

HOMEWORK_VERDICTS ==
    [approved  |-> "Rabota proverena: revyueru vsyo ponravilos. Ura!",
     reviewing |-> "Rabota vzyata na proverku revyuerom.",
     rejected  |-> "Rabota proverena: u revyuera est zamechaniya."]

(***************************************************************************)
(* Python values.                                                          *)
(***************************************************************************)
None == [type |-> "none"]

JDict(f) == [type |-> "dict", val |-> f]

JList(s) == [type |-> "list", val |-> s]

JInt(n) == [type |-> "int", val |-> n]

JNull == [type |-> "null"]

Exc(t, m) == [type |-> t, msg |-> m]

Return(v) == [ok |-> TRUE, value |-> v]

Raise(e) == [ok |-> FALSE, error |-> e]

\* str(exception): the single argument; KeyError.__str__ is repr(argument),
\* which single-quotes a string holding no single quote.
Str(e) == IF e.type = "KeyError" THEN "'" \o e.msg \o "'" ELSE e.msg

PyStr(s) == [type |-> "str", val |-> s]

\* Mutant of Falsy: only an unset variable counts as missing.
IsNone(v) == v = None

\* `not token_value` for a value os.getenv returns: None or a string.
Falsy(v) == v = None \/ v = PyStr("")

\* dict.get(key, default)
Get(d, key, default) == IF key \in DOMAIN d THEN d[key] ELSE default

(***************************************************************************)
(* check_tokens, lines 51-65.                                              *)
(***************************************************************************)
TokenNames == {"PRACTICUM_TOKEN", "TELEGRAM_TOKEN", "TELEGRAM_CHAT_ID"}

missing_tokens(e) == {n \in TokenNames : Falsy(e[n])}

check_tokens(e) ==
    IF missing_tokens(e) # {}
    THEN Raise(Exc("KeyError", "Not all tokens are present."))
    ELSE Return(None)

(***************************************************************************)
(* send_message, lines 68-77.  bot_error is what bot.send_message did:     *)
(* None when it returned, otherwise the exception it raised.               *)
(***************************************************************************)
\* `except telebot.ExceptionHandler`: telebot.ExceptionHandler is the
\* library's polling-handler base class, a plain class that does not
\* inherit from BaseException.  When an exception reaches the clause,
\* Python refuses the match with this TypeError, which leaves send_message;
\* lines 73-75 are never reached.
CannotCatch ==
    Exc("TypeError",
        "catching classes that do not inherit from BaseException is not allowed")

\* Mutant of send_message: the exception is caught and logged, and the
\* function falls through to its last line.
send_message_FallsThrough(bot_error, message) == Return(TRUE)

send_message(bot_error, message) ==
    IF bot_error # None
    THEN Raise(CannotCatch)
    ELSE Return(TRUE)

(***************************************************************************)
(* get_api_answer, lines 80-102.  http is what requests.get did: it raised *)
(* a RequestException ([kind |-> "raise"]) or returned a response object.  *)
(***************************************************************************)
request_data(ts) ==
    [url |-> ENDPOINT, headers |-> "OAuth", params |-> [from_date |-> ts]]

\* The replacement fields of the template of lines 94-95, in order.
ErrorTemplateFields == <<"e", "url", "headers", "params">>

\* str.format(e, **request_data): every field of the template is a named
\* field, looked up among the keyword arguments; the exception is passed
\* positionally, so the first field, e, is a KeyError.
FormatError(fields, kwargs) ==
    LET absent == {i \in 1..Len(fields) : fields[i] \notin DOMAIN kwargs}
    IN  IF absent = {} THEN None
        ELSE Exc("KeyError",
                 fields[CHOOSE i \in absent : \A j \in absent : i <= j])

JInvalid == [type |-> "invalid"]

\* exceptions.InvalidResponseCodeException: an Exception subclass whose
\* str() is the message it was built with.
InvalidResponseCodeException(m) == Exc("InvalidResponseCodeException", m)

get_api_answer(ts, http) ==
    IF http.kind = "raise"
    THEN IF FormatError(ErrorTemplateFields, request_data(ts)) # None
         THEN Raise(FormatError(ErrorTemplateFields, request_data(ts)))
         ELSE Raise(Exc("ConnectionError",
                        "Exception " \o http.cause
                            \o " occurred while request to YA_API"))
    ELSE IF http.status_code # HTTP_OK
    THEN Raise(InvalidResponseCodeException(
                   "Yandex API returned " \o ToString(http.status_code)
                       \o ", reason: " \o http.reason
                       \o ", response text: " \o http.text))
    ELSE IF http.json = JInvalid
    THEN Raise(Exc("JSONDecodeError",
                   "Expecting value: line 1 column 1 (char 0)"))
    ELSE Return(http.json)

(***************************************************************************)
(* check_response, lines 105-114.                                          *)
(***************************************************************************)
\* Mutant of check_response: a missing homeworks key reads as an empty
\* list (response.get('homeworks', [])).
check_response_KeyOptional(r) ==
    IF r.type # "dict"
    THEN Raise(Exc("TypeError", "Response is not a dictionary"))
    ELSE IF "homeworks" \notin DOMAIN r.val
    THEN Return(<<>>)
    ELSE IF r.val.homeworks.type # "list"
    THEN Raise(Exc("TypeError", "\"response[homeworks]\" is not a list]\""))
    ELSE Return(r.val.homeworks.val)

check_response(r) ==
    IF r.type # "dict"
    THEN Raise(Exc("TypeError", "Response is not a dictionary"))
    ELSE IF "homeworks" \notin DOMAIN r.val
    THEN Raise(Exc("KeyError",
                   "Failed to get \"homeworks\" in response JSON object"))
    ELSE IF r.val.homeworks.type # "list"
    THEN Raise(Exc("TypeError", "\"response[homeworks]\" is not a list]\""))
    ELSE Return(r.val.homeworks.val)

(***************************************************************************)
(* parse_status, lines 117-127.                                            *)
(***************************************************************************)
FormatVerdict(homework_name, v) ==
    "Izmenilsya status proverki raboty \"" \o homework_name \o "\". " \o v

\* Mutant of parse_status: homework_name is looked for before the status
\* is tested against the table.
parse_status_NameFirst(homework) ==
    IF homework.type # "dict"
    THEN Raise(Exc("TypeError",
                   "argument of type '" \o homework.type
                       \o "' is not iterable"))
    ELSE IF "status" \notin DOMAIN homework.val
    THEN Raise(Exc("KeyError",
                   "Failed to get \" homework status\" in response object"))
    ELSE IF "homework_name" \notin DOMAIN homework.val
    THEN Raise(Exc("KeyError", "\"homework_name\" key not found."))
    ELSE IF homework.val.status \notin DOMAIN HOMEWORK_VERDICTS
    THEN Raise(Exc("ValueError",
                   "Unknown homework status: " \o homework.val.status))
    ELSE Return(FormatVerdict(homework.val.homework_name,
                              HOMEWORK_VERDICTS[homework.val.status]))

parse_status(homework) ==
    IF homework.type # "dict"
    THEN Raise(Exc("TypeError",
                   "argument of type '" \o homework.type
                       \o "' is not iterable"))
    ELSE IF "status" \notin DOMAIN homework.val
    THEN Raise(Exc("KeyError",
                   "Failed to get \" homework status\" in response object"))
    ELSE IF homework.val.status \notin DOMAIN HOMEWORK_VERDICTS
    THEN Raise(Exc("ValueError",
                   "Unknown homework status: " \o homework.val.status))
    ELSE IF "homework_name" \notin DOMAIN homework.val
    THEN Raise(Exc("KeyError", "\"homework_name\" key not found."))
    ELSE Return(FormatVerdict(homework.val.homework_name,
                              HOMEWORK_VERDICTS[homework.val.status]))

(***************************************************************************)
(* The inputs: the environment, the clock, the API and the bot.            *)
(***************************************************************************)
EnvValues == {None, PyStr(""), PyStr("token")}

Envs == [TokenNames -> EnvValues]

Statuses == {"approved", "reviewing", "unknown_value"}

Names == {"proj1", "x"}

\* One homework of the API's list: a dict (every record carries an id) with
\* or without the keys status and homework_name, or a value that is no dict.
HomeworkRecords ==
    {JDict([id |-> 1, status |-> s, homework_name |-> n]) :
        s \in Statuses, n \in Names}
    \cup {JDict([id |-> 1, status |-> s]) : s \in Statuses}
    \cup {JDict([id |-> 1, homework_name |-> n]) : n \in Names}
    \cup {JDict([id |-> 1]), JInt(1)}

\* An older homework that follows the first one in a longer list.
OlderRecord == JDict([id |-> 0, status |-> "approved", homework_name |-> "proj0"])

HomeworkLists ==
    {<<>>} \cup {<<h>> : h \in HomeworkRecords}
           \cup {<<h, OlderRecord>> : h \in HomeworkRecords}

\* The decoded body of a 200 response.
Payloads ==
    {JDict([homeworks |-> JList(l), timestamp |-> t]) :
        l \in HomeworkLists, t \in Times}
    \cup {JDict([homeworks |-> JList(l)]) : l \in HomeworkLists}
    \cup {JDict([homeworks |-> JNull]), JDict([timestamp |-> 0]),
          JList(<<>>), JNull}

HttpRaise(c) == [kind |-> "raise", cause |-> c]

HttpResponse(code, reason, text, json) ==
    [kind |-> "response", status_code |-> code, reason |-> reason,
     text |-> text, json |-> json]

\* What requests.get can do in one cycle.
HttpOutcomes ==
    {HttpRaise(c) : c \in {"ConnectionError", "Timeout"}}
    \cup {HttpResponse(404, "Not Found", "not found", JInvalid),
          HttpResponse(500, "Internal Server Error", "oops", JInvalid),
          HttpResponse(HTTP_OK, "OK", "<html>", JInvalid)}
    \cup {HttpResponse(HTTP_OK, "OK", "json", p) : p \in Payloads}

\* What bot.send_message can do: return (None) or raise.
BotOutcomes == {None, Exc("ApiTelegramException", "Bad Request")}

(***************************************************************************)
(* History: what a cycle was about, kept for the next cycle to compare.    *)
(***************************************************************************)
NoCycle == [kind |-> "none"]

\* The first homework of a response that passes check_response with a
\* non-empty list; the cause of a transport failure; otherwise the kind.
Summary(http) ==
    IF http.kind = "raise" THEN [kind |-> "raise", cause |-> http.cause]
    ELSE IF ~get_api_answer(0, http).ok THEN [kind |-> "remote"]
    ELSE IF ~check_response(http.json).ok THEN [kind |-> "shape"]
    ELSE IF check_response(http.json).value = <<>> THEN [kind |-> "empty"]
    ELSE [kind |-> "homework", first |-> check_response(http.json).value[1]]

\* One call of send_message in the history: the text, what bot.send_message
\* did (None, or the exception it raised), how send_message ended, and
\* whether it reported the text delivered (returned True).
Attempt(text, b, r) ==
    [text |-> text, bot |-> b, result |-> r, delivered |-> r.ok /\ r.value]

(***************************************************************************)
(* main, lines 130-156.                                                    *)
(***************************************************************************)
\* No cursor yet: before line 134 the local timestamp is unbound.
Unbound == 0 - 1

Init ==
    /\ env \in Envs
    /\ pc = "start"
    /\ timestamp = Unbound
    /\ previous_report = ""
    /\ api = None
    /\ response = None
    /\ verdict = ""
    /\ error = None
    /\ pending = FALSE
    /\ attempts = <<>>
    /\ ts0 = Unbound
    /\ report0 = ""
    /\ prev = [cycle |-> NoCycle, attempts |-> <<>>]
    /\ polled = FALSE
    /\ slept = 0
    /\ lastVerdict = ""

\* Lines 132-135: check_tokens raises out of main (the process exits with
\* the traceback, status 1), or the loop's two locals are initialised.
Start ==
    /\ pc = "start"
    /\ IF check_tokens(env).ok
       THEN /\ \E now \in Times : timestamp' = now
            /\ previous_report' = ""
            /\ pc' = "poll"
            /\ error' = error
       ELSE /\ error' = check_tokens(env).error
            /\ pc' = "exited"
            /\ UNCHANGED <<timestamp, previous_report>>
    /\ UNCHANGED <<env, api, response, verdict, pending, attempts, ts0,
                   report0, prev, polled, slept, lastVerdict>>

\* Line 138: response = get_api_answer(timestamp).
Poll ==
    /\ pc = "poll"
    /\ \E http \in HttpOutcomes :
         LET r == get_api_answer(timestamp, http)
         IN  /\ api' = http
             /\ IF r.ok
                THEN response' = r.value /\ pc' = "check" /\ error' = error
                ELSE error' = r.error /\ pc' = "except"
                     /\ response' = response
    /\ polled' = TRUE
    /\ attempts' = <<>>
    /\ ts0' = timestamp
    /\ report0' = previous_report
    /\ slept' = 0
    /\ UNCHANGED <<env, timestamp, previous_report, verdict, pending, prev,
                   lastVerdict>>

\* Mutant of Check: an empty list clears the last reported message.
Check_EmptyResetsReport ==
    /\ pc = "check"
    /\ previous_report' =
         IF check_response(response).ok
            /\ check_response(response).value = <<>>
         THEN "" ELSE previous_report
    /\ LET r == check_response(response)
       IN  IF ~r.ok THEN error' = r.error /\ pc' = "except"
           ELSE /\ error' = error
                /\ pc' = IF r.value = <<>> THEN "finally" ELSE "parse"
    /\ UNCHANGED <<env, timestamp, api, response, verdict,
                   pending, attempts, ts0, report0, prev, polled, slept,
                   lastVerdict>>

\* Mutant of Check: no test for an empty list, so homeworks[0] raises.
Check_NoEmptyGuard ==
    /\ pc = "check"
    /\ LET r == check_response(response)
       IN  IF ~r.ok THEN error' = r.error /\ pc' = "except"
           ELSE IF r.value = <<>>
           THEN error' = Exc("IndexError", "list index out of range")
                /\ pc' = "except"
           ELSE error' = error /\ pc' = "parse"
    /\ UNCHANGED <<env, timestamp, previous_report, api, response, verdict,
                   pending, attempts, ts0, report0, prev, polled, slept,
                   lastVerdict>>

\* Lines 139-142: homeworks = check_response(response); an empty list
\* leaves the try block by `continue`, through `finally`.
Check ==
    /\ pc = "check"
    /\ LET r == check_response(response)
       IN  IF ~r.ok THEN error' = r.error /\ pc' = "except"
           ELSE /\ error' = error
                /\ pc' = IF r.value = <<>> THEN "finally" ELSE "parse"
    /\ UNCHANGED <<env, timestamp, previous_report, api, response, verdict,
                   pending, attempts, ts0, report0, prev, polled, slept,
                   lastVerdict>>

\* Lines 143-144: verdict = parse_status(homeworks[0]).
Parse ==
    /\ pc = "parse"
    /\ LET homeworks == check_response(response).value
           r == parse_status(homeworks[1])
       IN  IF r.ok
           THEN verdict' = r.value /\ pc' = "report" /\ error' = error
           ELSE error' = r.error /\ pc' = "except" /\ verdict' = verdict
    /\ UNCHANGED <<env, timestamp, previous_report, api, response, pending,
                   attempts, ts0, report0, prev, polled, slept, lastVerdict>>

\* Mutants of Differs: every message is sent; no message is sent.
AlwaysDiffers(message, report) == TRUE

NeverDiffers(message, report) == FALSE

\* Lines 145 and 152: the test that guards a send.
Differs(message, report) == message # report

\* Mutants of NewReport: the message is recorded whatever send_message did;
\* the message is never recorded.
NewReport_Unconditional(r, message, report) == message

NewReport_Never(r, message, report) == report

\* Lines 145-146 and 152-154: previous_report after send_message ended as r
\* (`... and send_message(bot, message)` true: the message is recorded).
NewReport(r, message, report) == IF r.ok /\ r.value THEN message ELSE report

\* Mutant of NextCursor: the response's timestamp is ignored.
NextCursor_Keep(resp, ts) == ts

\* Line 147: timestamp = response.get('timestamp', timestamp).
NextCursor(resp, ts) == Get(resp.val, "timestamp", ts)

\* Lines 145-147.  An exception leaving send_message is caught at line 148.
Report ==
    /\ pc = "report"
    /\ IF Differs(verdict, previous_report)
       THEN \E b \in BotOutcomes :
              LET r == send_message(b, verdict)
              IN  /\ attempts' = Append(attempts, Attempt(verdict, b, r))
                  /\ previous_report' = NewReport(r, verdict, previous_report)
                  /\ timestamp' = IF r.ok /\ r.value
                                  THEN NextCursor(response, timestamp)
                                  ELSE timestamp
                  /\ IF r.ok
                     THEN error' = error /\ pc' = "finally"
                     ELSE error' = r.error /\ pc' = "except"
       ELSE /\ pc' = "finally"
            /\ UNCHANGED <<attempts, error, previous_report, timestamp>>
    /\ UNCHANGED <<env, api, response, verdict, pending, ts0, report0, prev,
                   polled, slept, lastVerdict>>

\* Mutant of Diagnostic: the failure is not described.
Diagnostic_NoDetail(e) == "Sboi v rabote programmy"

\* Line 149.
Diagnostic(e) == "Sboi v rabote programmy: " \o Str(e)

\* Lines 148-154.  An exception leaving send_message here is not caught:
\* it propagates out of main once `finally` has run.
Except ==
    /\ pc = "except"
    /\ LET message == Diagnostic(error)
           current_report == message
       IN  IF Differs(current_report, previous_report)
           THEN \E b \in BotOutcomes :
                  LET r == send_message(b, message)
                  IN  /\ attempts' = Append(attempts, Attempt(message, b, r))
                      /\ previous_report' =
                            NewReport(r, current_report, previous_report)
                      /\ IF r.ok
                         THEN UNCHANGED <<error, pending>>
                         ELSE error' = r.error /\ pending' = TRUE
           ELSE UNCHANGED <<attempts, error, pending, previous_report>>
    /\ pc' = "finally"
    /\ UNCHANGED <<env, timestamp, api, response, verdict, ts0, report0, prev,
                   polled, slept, lastVerdict>>

\* History kept at the end of a cycle: the verdict the cycle delivered;
\* otherwise the last delivered verdict, forgotten once the response's
\* first homework is not the one that verdict was formatted from.
LastVerdictAfter ==
    IF \E i \in 1..Len(attempts) :
          attempts[i].delivered /\ attempts[i].text = verdict
    THEN verdict
    ELSE IF Summary(api).kind # "homework" THEN lastVerdict
    ELSE IF parse_status(Summary(api).first).ok
            /\ parse_status(Summary(api).first).value = lastVerdict
    THEN lastVerdict
    ELSE ""

\* Lines 155-156: time.sleep(RETRY_PERIOD), then the next iteration, or the
\* pending exception leaves main.  The locals response, verdict and error
\* are written before they are read in the next iteration; they are reset.
Finally ==
    /\ pc = "finally"
    /\ lastVerdict' = LastVerdictAfter
    /\ slept' = slept + RETRY_PERIOD
    /\ prev' = [cycle |-> Summary(api), attempts |-> attempts]
    /\ IF pending
       THEN pc' = "exited" /\ UNCHANGED <<response, verdict, error>>
       ELSE pc' = "poll" /\ response' = None /\ verdict' = "" /\ error' = None
    /\ UNCHANGED <<env, timestamp, previous_report, api, pending, attempts,
                   ts0, report0, polled>>

Next == Start \/ Poll \/ Check \/ Parse \/ Report \/ Except \/ Finally

Spec == Init /\ [][Next]_vars

(***************************************************************************)
(* What one cycle computes from what requests.get did, lines 138-144:      *)
(* an error of get_api_answer, check_response or parse_status, an empty    *)
(* list, or a verdict.                                                     *)
(***************************************************************************)
Pipeline(ts, http) ==
    LET a == get_api_answer(ts, http)
        c == check_response(a.value)
        v == parse_status(c.value[1])
    IN  IF ~a.ok THEN [kind |-> "error", error |-> a.error, verdict |-> ""]
        ELSE IF ~c.ok THEN [kind |-> "error", error |-> c.error, verdict |-> ""]
        ELSE IF c.value = <<>>
        THEN [kind |-> "empty", error |-> None, verdict |-> ""]
        ELSE IF ~v.ok THEN [kind |-> "error", error |-> v.error, verdict |-> ""]
        ELSE [kind |-> "verdict", error |-> None, verdict |-> v.value]

\* The positions of main inside an iteration of the loop, after line 138.
InCycle == pc \in {"check", "parse", "report", "except", "finally"}

\* The iteration has reached `finally`: everything but the sleep is done.
CycleDone == pc = "finally"

Delivered(text) == Attempt(text, None, Return(TRUE))

(***************************************************************************)
(* C1.  The cursor changes only in a cycle in which a verdict that differs *)
(* from previous_report was formatted and send_message delivered it: in a  *)
(* cycle that changed the cursor, the cycle's result is a verdict, it is   *)
(* not the report the cycle began with, and the cycle's one send is that   *)
(* verdict, delivered.  In every other cycle the cursor is the one the     *)
(* cycle began with.                                                       *)
(***************************************************************************)
C1_CursorChangesOnlyOnDeliveredNovelVerdict ==
    (polled /\ timestamp # ts0) =>
        /\ Pipeline(ts0, api).kind = "verdict"
        /\ Pipeline(ts0, api).verdict # report0
        /\ attempts = <<Delivered(Pipeline(ts0, api).verdict)>>

C1_Witness ==
    /\ CycleDone
    /\ timestamp # ts0
    /\ report0 # ""

(***************************************************************************)
(* C2.  previous_report is the empty string until the first poll.  A step  *)
(* changes it only if the step is a send_message call that delivered, and  *)
(* then to the text just delivered; a send_message call that failed leaves *)
(* it as it was; a cycle without a send ends with the report it began      *)
(* with.                                                                   *)
(***************************************************************************)
C2_ReportStep ==
    /\ previous_report' # previous_report =>
          /\ Len(attempts') = Len(attempts) + 1
          /\ attempts'[Len(attempts')] = Delivered(previous_report')
    /\ (/\ Len(attempts') = Len(attempts) + 1
        /\ ~attempts'[Len(attempts')].delivered) =>
          previous_report' = previous_report

C2_ReportState ==
    /\ ~polled => previous_report = ""
    /\ (polled /\ attempts = <<>>) => previous_report = report0

C2_ReportChangesOnlyAfterDelivery ==
    []C2_ReportState /\ [][C2_ReportStep]_vars

C2_Witness ==
    /\ CycleDone
    /\ Len(attempts) = 2
    /\ ~attempts[1].delivered
    /\ attempts[2].delivered
    /\ previous_report = attempts[2].text
    /\ report0 # ""

(***************************************************************************)
(* C3.  When the last cycle's response had a first homework with a         *)
(* recognized status and a name, its verdict was delivered, and this       *)
(* cycle's response has the same first homework, this cycle calls          *)
(* send_message zero times: one delivery across the two cycles.            *)
(***************************************************************************)
SameVerdictTwice ==
    /\ InCycle
    /\ prev.cycle.kind = "homework"
    /\ parse_status(prev.cycle.first).ok
    /\ prev.attempts = <<Delivered(parse_status(prev.cycle.first).value)>>
    /\ Summary(api) = prev.cycle

C3_SamePayloadTwiceOneDelivery ==
    SameVerdictTwice => attempts = <<>>

C3_Witness ==
    SameVerdictTwice /\ CycleDone

(***************************************************************************)
(* C4.  A cycle whose requests.get raises, with a diagnostic that is not   *)
(* the report the cycle began with, calls send_message exactly once, with  *)
(* the diagnostic built from the caught error; when the last cycle was     *)
(* such a cycle and its diagnostic was delivered, a cycle whose            *)
(* requests.get raises with the same cause from the same cursor calls      *)
(* send_message zero times.                                                *)
(***************************************************************************)
TransportFailure == InCycle /\ api.kind = "raise"

SameTransportFailureTwice ==
    /\ TransportFailure
    /\ prev.cycle = [kind |-> "raise", cause |-> api.cause]
    /\ Len(prev.attempts) = 1
    /\ prev.attempts[1].delivered

C4_TransportFailureReportedOnce ==
    /\ (TransportFailure /\ CycleDone
          /\ Diagnostic(Pipeline(ts0, api).error) # report0) =>
            /\ Len(attempts) = 1
            /\ attempts[1].text = Diagnostic(Pipeline(ts0, api).error)
            /\ attempts[1].delivered =>
                  previous_report = Diagnostic(Pipeline(ts0, api).error)
    /\ SameTransportFailureTwice => attempts = <<>>

C4_Witness ==
    SameTransportFailureTwice /\ CycleDone /\ timestamp = ts0

(***************************************************************************)
(* C5.  Once check_tokens has succeeded, main never terminates because of  *)
(* an operational error: every failure, a failed delivery of a diagnostic  *)
(* included, is caught and followed by the sleep and another poll.  So     *)
(* main is left only by the check_tokens failure.                          *)
(***************************************************************************)
C5_LoopNeverTerminates ==
    pc = "exited" => ~check_tokens(env).ok

(***************************************************************************)
(* C6.  With any of the three credentials unset or empty, main never       *)
(* reaches the loop: no request, no send and no sleep happen, and main is  *)
(* left by the KeyError of check_tokens (exit status 1).                   *)
(***************************************************************************)
CredentialMissing ==
    \E n \in TokenNames : env[n] = None \/ env[n] = PyStr("")

C6_MissingCredentialFailsFast ==
    CredentialMissing =>
        /\ pc \in {"start", "exited"}
        /\ pc = "exited" =>
              error = Exc("KeyError", "Not all tokens are present.")
        /\ ~polled
        /\ slept = 0
        /\ attempts = <<>>
        /\ timestamp = Unbound

C6_Witness ==
    /\ pc = "exited"
    /\ env["PRACTICUM_TOKEN"] = PyStr("token")
    /\ env["TELEGRAM_TOKEN"] = PyStr("token")
    /\ env["TELEGRAM_CHAT_ID"] = PyStr("")

(***************************************************************************)
(* C7.  A cycle whose response is a 200 with a dict whose homeworks is the *)
(* empty list goes from check_response straight to the sleep: it calls     *)
(* send_message zero times, keeps the cursor and the report, raises        *)
(* nothing, and is followed by the next poll.                              *)
(***************************************************************************)
EmptyHomeworks(http) ==
    /\ http.kind = "response"
    /\ http.status_code = 200
    /\ http.json.type = "dict"
    /\ "homeworks" \in DOMAIN http.json.val
    /\ http.json.val.homeworks = JList(<<>>)

C7_EmptyHomeworksState ==
    /\ (InCycle /\ EmptyHomeworks(api)) =>
          /\ pc \in {"check", "finally"}
          /\ attempts = <<>>
          /\ timestamp = ts0
          /\ previous_report = report0
          /\ ~pending
    /\ (polled /\ ~InCycle /\ EmptyHomeworks(api)) =>
          /\ pc = "poll"
          /\ slept = RETRY_PERIOD
          /\ prev.attempts = <<>>
          /\ timestamp = ts0

C7_EmptyHomeworksStep ==
    (pc = "check" /\ EmptyHomeworks(api)) => pc' = "finally"

C7_EmptyHomeworksNoDeliveryNoAdvance ==
    []C7_EmptyHomeworksState /\ [][C7_EmptyHomeworksStep]_vars

C7_Witness ==
    /\ pc = "poll"
    /\ polled
    /\ EmptyHomeworks(api)
    /\ "timestamp" \in DOMAIN api.json.val
    /\ api.json.val.timestamp # timestamp
    /\ previous_report # ""

(***************************************************************************)
(* C8.  A cycle in which get_api_answer, check_response or parse_status    *)
(* raises e sends no verdict; it calls send_message with the diagnostic of *)
(* e exactly when that diagnostic is not the report the cycle began with,  *)
(* and not otherwise; the report becomes the diagnostic only when that     *)
(* send delivered; the cursor is the one the cycle began with.             *)
(***************************************************************************)
FailedCycle == CycleDone /\ Pipeline(ts0, api).kind = "error"

FailureText == "Sboi v rabote programmy: " \o Str(Pipeline(ts0, api).error)

C8_FailureReportedOnceCursorKept ==
    FailedCycle =>
        /\ IF FailureText # report0
           THEN Len(attempts) = 1 /\ attempts[1].text = FailureText
           ELSE attempts = <<>>
        /\ previous_report =
              IF attempts # <<>> /\ attempts[1].delivered
              THEN FailureText ELSE report0
        /\ timestamp = ts0

C8_Witness ==
    /\ FailedCycle
    /\ Pipeline(ts0, api).error.type = "ValueError"
    /\ attempts = <<Delivered(FailureText)>>
    /\ report0 # ""

(***************************************************************************)
(* C9.  At the end of a cycle whose verdict, not the report the cycle      *)
(* began with, was delivered, the cursor is the response's timestamp when  *)
(* the response has that key, and the cursor the cycle began with when it  *)
(* has not.                                                                *)
(***************************************************************************)
NovelVerdictDelivered ==
    /\ CycleDone
    /\ attempts # <<>>
    /\ attempts[1] = Delivered(verdict)
    /\ verdict # report0

C9_CursorIsResponseTimestamp ==
    NovelVerdictDelivered =>
        /\ Len(attempts) = 1
        /\ timestamp = IF "timestamp" \in DOMAIN api.json.val
                       THEN api.json.val.timestamp
                       ELSE ts0

C9_Witness ==
    /\ NovelVerdictDelivered
    /\ prev.cycle = NoCycle
    /\ "timestamp" \in DOMAIN api.json.val
    /\ api.json.val.timestamp # ts0
    /\ timestamp = api.json.val.timestamp

(***************************************************************************)
(* C10.  The cursor never decreases: after a cycle it is at least the      *)
(* cursor the cycle began with, whatever timestamp the response carried.   *)
(***************************************************************************)
C10_CursorNeverDecreases ==
    polled => timestamp >= ts0

(***************************************************************************)
(* The loop under a condition that persists: every call of requests.get    *)
(* does what the first one did.  The loop is one sequential thread whose   *)
(* every step ends (WF of the next-state relation), and a send that is     *)
(* attempted again and again is delivered at some attempt (SF of Deliver). *)
(***************************************************************************)
PollSame == Poll /\ (polled => api' = api)

Deliver ==
    /\ Report \/ Except
    /\ Len(attempts') = Len(attempts) + 1
    /\ attempts'[Len(attempts')].delivered

NextPersist ==
    Start \/ PollSame \/ Check \/ Parse \/ Report \/ Except \/ Finally

LiveSpec ==
    Init /\ [][NextPersist]_vars /\ WF_vars(NextPersist) /\ SF_vars(Deliver)

\* The message the current cycle's response produces: the verdict, the
\* diagnostic of the failure, or none ("") for an empty list.
CycleMessage ==
    IF ~polled THEN ""
    ELSE IF Pipeline(ts0, api).kind = "verdict" THEN Pipeline(ts0, api).verdict
    ELSE IF Pipeline(ts0, api).kind = "error"
    THEN Diagnostic(Pipeline(ts0, api).error)
    ELSE ""

(***************************************************************************)
(* C11.  Any new condition is reported: when a cycle produces a message    *)
(* that is not previous_report and every later poll returns the same, and  *)
(* sends do not fail forever, previous_report eventually is that message.  *)
(***************************************************************************)
C11_NewConditionEventuallyReported ==
    []((CycleMessage # "" /\ CycleMessage # previous_report)
          => <>(CycleMessage # "" /\ previous_report = CycleMessage))

(***************************************************************************)
(* C12.  At most one delivery per detected change: a cycle does not        *)
(* deliver a verdict that is the last verdict delivered when no poll in    *)
(* between returned another first homework (another status or name), also  *)
(* when an error was reported in between.                                  *)
(***************************************************************************)
C12_VerdictDeliveredOncePerChange ==
    \A i \in 1..Len(attempts) :
        (InCycle /\ attempts[i].delivered /\ attempts[i].text = verdict)
            => verdict # lastVerdict

(***************************************************************************)
(* C13.  send_message reports the outcome of its one bot.send_message call *)
(* as a boolean and never raises: every call made so far in the cycle      *)
(* returned True when the bot's send returned, and returned False when the *)
(* bot's send raised.                                                      *)
(***************************************************************************)
C13_SendMessageReturnsBoolean ==
    \A i \in 1..Len(attempts) :
        attempts[i].result = Return(attempts[i].bot = None)

(***************************************************************************)
(* C14.  The exception main catches from get_api_answer: a ConnectionError *)
(* whose message carries the cause when requests.get raised, and an        *)
(* InvalidResponseCodeException whose message carries the status code and  *)
(* the body when the status is not 200.                                    *)
(***************************************************************************)
C14_ApiErrorKinds ==
    /\ (pc = "except" /\ attempts = <<>> /\ api.kind = "raise") =>
          /\ error.type = "ConnectionError"
          /\ error.msg = "Exception " \o api.cause
                           \o " occurred while request to YA_API"
    /\ (pc = "except" /\ attempts = <<>> /\ api.kind = "response"
          /\ api.status_code # 200) =>
          /\ error.type = "InvalidResponseCodeException"
          /\ error.msg = "Yandex API returned " \o ToString(api.status_code)
                           \o ", reason: " \o api.reason
                           \o ", response text: " \o api.text

(***************************************************************************)
(* C15.  What parse_status did with the first homework h, a dict, of the   *)
(* response: KeyError when h has no status; otherwise ValueError carrying  *)
(* the status when it is no key of HOMEWORK_VERDICTS, also when h has no   *)
(* homework_name; otherwise KeyError when h has no homework_name;          *)
(* otherwise the string built from the name and the table's text.  A       *)
(* verdict is never produced from an unrecognized status.                  *)
(***************************************************************************)
\* The response passed check_response with a list that is not empty.
HasFirstHomework ==
    /\ response # None
    /\ response.type = "dict"
    /\ "homeworks" \in DOMAIN response.val
    /\ response.val.homeworks.type = "list"
    /\ response.val.homeworks.val # <<>>

FirstHomework == response.val.homeworks.val[1]

Recognized == {"approved", "reviewing", "rejected"}

\* parse_status(FirstHomework) has returned, or has just raised.
ParseReturned == pc = "report"

ParseRaised ==
    pc = "except" /\ attempts = <<>> /\ HasFirstHomework
        /\ FirstHomework.type = "dict"

C15_ParseStatusCases ==
    /\ ParseReturned =>
          /\ FirstHomework.type = "dict"
          /\ {"status", "homework_name"} \subseteq DOMAIN FirstHomework.val
          /\ FirstHomework.val.status \in Recognized
          /\ verdict = "Izmenilsya status proverki raboty \""
                         \o FirstHomework.val.homework_name \o "\". "
                         \o HOMEWORK_VERDICTS[FirstHomework.val.status]
    /\ ParseRaised =>
          IF "status" \notin DOMAIN FirstHomework.val
          THEN error.type = "KeyError"
          ELSE IF FirstHomework.val.status \notin Recognized
          THEN error = Exc("ValueError", "Unknown homework status: "
                                           \o FirstHomework.val.status)
          ELSE /\ "homework_name" \notin DOMAIN FirstHomework.val
               /\ error.type = "KeyError"

C15_Witness ==
    /\ ParseRaised
    /\ DOMAIN FirstHomework.val = {"id", "status"}
    /\ FirstHomework.val.status = "unknown_value"
    /\ error.type = "ValueError"

(***************************************************************************)
(* C16.  The step that calls check_response: it raises TypeError when the  *)
(* response is no dict, else KeyError when the dict has no key homeworks,  *)
(* else TypeError when homeworks is no list; otherwise it raises nothing   *)
(* and main goes on with exactly that list: to the sleep when it is empty, *)
(* to parse_status of its first element when it is not.                    *)
(***************************************************************************)
C16_CheckStep ==
    pc = "check" =>
        IF response.type # "dict"
        THEN pc' = "except" /\ error'.type = "TypeError"
        ELSE IF "homeworks" \notin DOMAIN response.val
        THEN pc' = "except" /\ error'.type = "KeyError"
        ELSE IF response.val.homeworks.type # "list"
        THEN pc' = "except" /\ error'.type = "TypeError"
        ELSE /\ error' = None
             /\ pc' = IF response.val.homeworks.val = <<>>
                      THEN "finally" ELSE "parse"

C16_CheckResponseCases ==
    [](pc = "parse" => HasFirstHomework) /\ [][C16_CheckStep]_vars

C16_Witness ==
    /\ pc = "except"
    /\ attempts = <<>>
    /\ response = JDict([homeworks |-> JNull])
    /\ error.type = "TypeError"

(***************************************************************************)
(* C17.  Every cycle ends with exactly one sleep of RETRY_PERIOD seconds:  *)
(* no sleep happens inside a cycle before `finally`, a call of             *)
(* get_api_answer that follows another comes after exactly one sleep, and  *)
(* after every sleep main is at line 138 again, about to call              *)
(* get_api_answer.                                                         *)
(***************************************************************************)
C17_OneSleepBetweenPolls ==
    /\ InCycle => slept = 0
    /\ (polled /\ pc = "poll") => slept = RETRY_PERIOD

C17_OneSleepThenNextPoll ==
    /\ C17_OneSleepBetweenPolls
    /\ slept # 0 => pc = "poll"

(***************************************************************************)
(* C18.  When the bot's send of the last cycle's first message failed and  *)
(* this cycle produces the same message, this cycle calls send_message     *)
(* with it again: its first send is that message.                          *)
(***************************************************************************)
RetryCase ==
    /\ CycleDone
    /\ prev.attempts # <<>>
    /\ prev.attempts[1].bot # None
    /\ CycleMessage = prev.attempts[1].text

C19_AtMostOneSendPerCycle ==
    Len(attempts) <= 1

(***************************************************************************)
(* C20.  A cycle with an empty homeworks list and a cycle whose verdict is *)
(* the report it began with leave previous_report as it was, the second    *)
(* without a send.  So after a diagnostic E was reported, a failure that   *)
(* produces E again right after an empty poll calls send_message zero      *)
(* times.                                                                  *)
(***************************************************************************)
SameFailureAfterEmptyPoll ==
    /\ CycleDone
    /\ prev.cycle.kind = "empty"
    /\ Pipeline(ts0, api).kind = "error"
    /\ report0 = Diagnostic(Pipeline(ts0, api).error)

C20_EmptyAndDuplicateKeepReport ==
    /\ (CycleDone /\ EmptyHomeworks(api)) => previous_report = report0
    /\ (CycleDone /\ Pipeline(ts0, api).kind = "verdict"
          /\ Pipeline(ts0, api).verdict = report0) =>
            (previous_report = report0 /\ attempts = <<>>)
    /\ (prev.cycle.kind = "empty" /\ pc = "poll") =>
            previous_report = report0
    /\ SameFailureAfterEmptyPoll => attempts = <<>>

C20_Witness ==
    SameFailureAfterEmptyPoll /\ attempts = <<>> /\ previous_report = report0

====
